---- MODULE Spec2Model ----
(***************************************************************************)
(* BinaryTierList: the scapegoat-style ranking tree (Tree.ts) and the two  *)
(* hosts that drive its Insertion-Walk (App.tsx: handleComparison, and the *)
(* earlier App.tsx: handleDirection).                                      *)
(*                                                                         *)
(* Objects live in a heap: a sequence of Node records addressed by their   *)
(* index; reference 0 is null.  `new Node` appends a record.  At the end   *)
(* of every handler the objects nothing refers to any more are collected   *)
(* and the remaining ones renumbered (Collect), so that a state holds the  *)
(* object graph up to the names of its objects.                            *)
(***************************************************************************)
EXTENDS Integers, Sequences, FiniteSets, TLC

VARIABLES
    client,        \* which program runs: "App", "Legacy", "Lib" (a direct user of Tree),
                   \* "Pass", "Walks" or "Tiers" (the further specifications)
    heap,          \* the Node objects
    tree,          \* the Tree the host keeps: [present, root, sizeCount]
    currentStep,   \* App: 'input' | 'imageUpload' | 'sorting' | 'tierSetting' | 'locked'
    items,         \* the submitted item list
    randomized,    \* the shuffled items (App: those not yet inserted)
    currentIndex,  \* 0-based index into randomized
    currentItem,   \* the pending value, or NoItem
    currentNode,   \* the current comparison node, or Null
    sorted,        \* [isNull, list]: the ranked sequence once read
    lastOp,        \* the operation that produced this state
    lastDir,       \* the direction of that operation, if it had one
    scapegoats,    \* how many 'is a scapegoat' lines that operation logged
    lastValue,     \* the value that operation was called with, or NoItem
    lastCase,      \* delete: what _deleteRecursive did ("absent", "spliced", "successor")
    balanceCalls,  \* balance() calls since the last mutation (counted up to 2)
    walks,         \* interleaved walks: the comparison node and the pending item of each
    boundaries,    \* App.tsx: the tier boundaries, indices into sorted
    tierNames      \* App.tsx: the names typed for the tiers

vars == <<client, heap, tree, currentStep, items, randomized, currentIndex,
          currentItem, currentNode, sorted, lastOp, lastDir, scapegoats,
          lastValue, lastCase, balanceCalls, walks, boundaries,
          tierNames>>

-----------------------------------------------------------------------------
(* Bounds *)

MaxItems == 4      \* longest item list a host is given
MaxNodes == 4      \* most nodes the direct user of Tree builds
MaxShape == 6      \* most nodes of a tree that is given to a single balance() pass
MaxRanked == 9     \* longest ranked sequence the tier-setting step is given
MaxNamed == 1      \* highest index of a tier that is given a name

-----------------------------------------------------------------------------
(* Values *)

Null == 0
NoItem == "<null>"

\* The strings used as item values, in JavaScript's string order ("" first).
ValueOrder == <<"", "A", "B", "C", "D">>

Values == {ValueOrder[i] : i \in 1..Len(ValueOrder)}

Rank(v) == CHOOSE i \in 1..Len(ValueOrder) : ValueOrder[i] = v

\* value < node.value on strings
StrLt(a, b) == Rank(a) < Rank(b)

\* JavaScript truthiness of a string-or-null
Truthy(s) == s # NoItem /\ s # ""

Directions == {"left", "right"}

-----------------------------------------------------------------------------
(* Node *)

Node(v) == [value |-> v, left |-> Null, right |-> Null, parent |-> Null]

\* A parent back-reference that is never re-linked
SetParentNever(h, n, p) == h

\* node.parent = p, when node is not null
SetParentIf(h, n, p) == IF n # Null THEN [h EXCEPT ![n].parent = p] ELSE h

\* S is what a call returned: [h |-> the heap after it, r |-> the node returned, ...]

\* An assignment of the left slot that drops what the call returned
AssignLeftNull(S, n) == [S EXCEPT !.h = [S.h EXCEPT ![n].left = Null]]

\* node.left = S.r; if (node.left) node.left.parent = node
AssignLeft(S, n) ==
    [S EXCEPT !.h = SetParentIf([S.h EXCEPT ![n].left = S.r], S.r, n)]

\* node.right = S.r; if (node.right) node.right.parent = node
AssignRight(S, n) ==
    [S EXCEPT !.h = SetParentIf([S.h EXCEPT ![n].right = S.r], S.r, n)]

\* if (S.r) S.r.parent = p
SetResultParent(S, p) == [S EXCEPT !.h = SetParentIf(S.h, S.r, p)]

\* An addChild that fills the other slot
addChildOtherSlot(h, n, v, d) ==
    LET o  == IF d = "left" THEN "right" ELSE "left"
        c  == Len(h) + 1
        h1 == Append(h, Node(v))
        h2 == [h1 EXCEPT ![n][o] = c]
    IN  [h2 EXCEPT ![c].parent = n]

\* An addChild that does not set the child's parent
addChildNoParent(h, n, v, d) ==
    LET c == Len(h) + 1
    IN  [Append(h, Node(v)) EXCEPT ![n][d] = c]

\* Node.addChild(value, direction) on the node n
addChild(h, n, v, d) ==
    LET c == Len(h) + 1
        h1 == Append(h, Node(v))
        h2 == [h1 EXCEPT ![n][d] = c]
    IN  [h2 EXCEPT ![h2[n][d]].parent = n]

-----------------------------------------------------------------------------
(* Tree *)

NoTree == [present |-> FALSE, root |-> Null, sizeCount |-> 0]

\* new Tree(value?): the heap and the Tree object
NewTree(h, v) ==
    IF Truthy(v)
    THEN [h |-> Append(h, Node(v)),
          t |-> [present |-> TRUE, root |-> Len(h) + 1, sizeCount |-> 1]]
    ELSE [h |-> h, t |-> [present |-> TRUE, root |-> Null, sizeCount |-> 0]]

\* A size that counts an empty subtree as one node
RECURSIVE sizeNullAsOne(_, _)
sizeNullAsOne(h, n) ==
    IF n = Null THEN 1 ELSE 1 + sizeNullAsOne(h, h[n].left) + sizeNullAsOne(h, h[n].right)

RECURSIVE size(_, _)
size(h, n) == IF n = Null THEN 0 ELSE 1 + size(h, h[n].left) + size(h, h[n].right)

\* A successor search that stops at the node it is given
findMinIsNode(h, n) == n

RECURSIVE findMin(_, _)
findMin(h, n) == IF h[n].left # Null THEN findMin(h, h[n].left) ELSE n

\* _deleteRecursive(node, value): [h |-> the heap after it, r |-> the node returned,
\* c |-> "absent" (the search ran off the tree), "spliced" (a node with an empty
\* slot was taken out) or "successor" (the two-child case)]
RECURSIVE deleteRecursive(_, _, _)
deleteRecursive(h, n, v) ==
    IF n = Null THEN [h |-> h, r |-> Null, c |-> "absent"]
    ELSE IF StrLt(v, h[n].value) THEN
        [AssignLeft(deleteRecursive(h, h[n].left, v), n) EXCEPT !.r = n]
    ELSE IF StrLt(h[n].value, v) THEN
        [AssignRight(deleteRecursive(h, h[n].right, v), n) EXCEPT !.r = n]
    ELSE IF h[n].left = Null THEN
        [h |-> SetParentIf(h, h[n].right, h[n].parent), r |-> h[n].right, c |-> "spliced"]
    ELSE IF h[n].right = Null THEN
        [h |-> SetParentIf(h, h[n].left, h[n].parent), r |-> h[n].left, c |-> "spliced"]
    ELSE
        LET successor == findMin(h, h[n].right)
            h1 == [h EXCEPT ![n].value = h[successor].value]
        IN  [AssignRight(deleteRecursive(h1, h1[n].right, h1[successor].value), n)
                EXCEPT !.r = n, !.c = "successor"]

\* A collection that takes the nodes themselves instead of new ones
RECURSIVE collectNodesReuse(_, _)
collectNodesReuse(acc, n) ==
    IF n = Null THEN acc
    ELSE LET a1 == collectNodesReuse(acc, acc.h[n].left)
             a2 == [a1 EXCEPT !.nodes = Append(a1.nodes, n)]
         IN  collectNodesReuse(a2, a2.h[n].right)

\* A collection that visits a node before its left subtree
RECURSIVE collectNodesPreOrder(_, _)
collectNodesPreOrder(acc, n) ==
    IF n = Null THEN acc
    ELSE LET a1 == [h |-> Append(acc.h, Node(acc.h[n].value)),
                    nodes |-> Append(acc.nodes, Len(acc.h) + 1)]
             a2 == collectNodesPreOrder(a1, a1.h[n].left)
         IN  collectNodesPreOrder(a2, a2.h[n].right)

\* _collectNodes(node, nodes): in-order, one new Node per node of the subtree.
\* acc = [h |-> heap, nodes |-> the new nodes so far]
RECURSIVE collectNodes(_, _)
collectNodes(acc, n) ==
    IF n = Null THEN acc
    ELSE LET a1 == collectNodes(acc, acc.h[n].left)
             a2 == [h |-> Append(a1.h, Node(a1.h[n].value)),
                    nodes |-> Append(a1.nodes, Len(a1.h) + 1)]
         IN  collectNodes(a2, a2.h[n].right)

\* A midpoint rounded up
MidCeil(start, end) == (start + end + 1) \div 2

\* A rebuild that takes the first element, not the midpoint, as the subtree's root
MidStart(start, end) == start

\* Math.floor((start + end) / 2)
Mid(start, end) == (start + end) \div 2

\* _buildBalancedTree(nodes, start, end), indices 0-based as in the source
RECURSIVE buildBalancedTree(_, _, _, _)
buildBalancedTree(h, nodes, start, end) ==
    IF start > end THEN [h |-> h, r |-> Null]
    ELSE LET mid  == Mid(start, end)
             node == nodes[mid + 1]
             S1   == AssignLeft(buildBalancedTree(h, nodes, start, mid - 1), node)
             S2   == AssignRight(buildBalancedTree(S1.h, nodes, mid + 1, end), node)
         IN  [S2 EXCEPT !.r = node]

\* A balance factor that keeps its sign: leftSize - rightSize
balanceFactorSigned(h, n) == size(h, h[n].left) - size(h, h[n].right)

\* Math.abs(leftSize - rightSize)
balanceFactor(h, n) ==
    LET leftSize  == size(h, h[n].left)
        rightSize == size(h, h[n].right)
    IN  IF leftSize >= rightSize THEN leftSize - rightSize ELSE rightSize - leftSize

\* A balance test that fires on any difference of the subtree sizes
IsScapegoatEager(h, n) == balanceFactor(h, n) > 0 /\ size(h, n) > 1

\* A balance test with the threshold one too high
IsScapegoatLax(h, n) == balanceFactor(h, n) > 2 /\ size(h, n) > 1

\* if (balanceFactor > 1 && totalSize > 1)
IsScapegoat(h, n) == balanceFactor(h, n) > 1 /\ size(h, n) > 1

\* A scapegoat branch that leaves the subtree as it is
rebuildSkipped(S, n) == [S EXCEPT !.r = n]

\* _balanceScapegoat(node), the scapegoat branch: collect the subtree of n, rebuild
\* it and hang it where n was
rebuildSubtree(S, n) ==
    LET C == collectNodes([h |-> S.h, nodes |-> <<>>], n)
        B == SetResultParent(buildBalancedTree(C.h, C.nodes, 0, Len(C.nodes) - 1),
                             S.h[n].parent)
    IN  [h |-> B.h, r |-> B.r, k |-> S.k + 1]

\* _balanceScapegoat(node) run from S = [h |-> the heap, k |-> the number of
\* 'is a scapegoat' lines logged so far]: [h |-> the heap after it, r |-> the node
\* returned, k |-> the lines logged by then]
RECURSIVE balanceScapegoat(_, _)
balanceScapegoat(S, n) ==
    IF n = Null THEN [S EXCEPT !.r = Null]
    ELSE LET S1 == AssignLeft(balanceScapegoat(S, S.h[n].left), n)
             S2 == AssignRight(balanceScapegoat(S1, S1.h[n].right), n)
         IN  IF IsScapegoat(S2.h, n)
             THEN rebuildSubtree(S2, n)
             ELSE [S2 EXCEPT !.r = n]

RECURSIVE verifyBalance(_, _)
verifyBalance(h, n) ==
    IF n = Null THEN TRUE
    ELSE IF balanceFactor(h, n) > 1 THEN FALSE
    ELSE verifyBalance(h, h[n].left) /\ verifyBalance(h, h[n].right)

\* A balance() that leaves the tree as it is
balanceSkipped(h, root) == [h |-> h, r |-> root, k |-> 0]

\* Tree.balance() on a Tree whose root is `root`: [h, r |-> the new root, k]
balance(h, root) ==
    IF root # Null
    THEN SetResultParent(balanceScapegoat([h |-> h, r |-> Null, k |-> 0], root), Null)
    ELSE [h |-> h, r |-> Null, k |-> 0]

\* Tree.delete(value) on the Tree t: [h, t, k, c]
delete(h, t, v) ==
    LET D == SetResultParent(deleteRecursive(h, t.root, v), Null)
        B == balance(D.h, D.r)
    IN  [h |-> B.h, t |-> [t EXCEPT !.root = B.r, !.sizeCount = size(D.h, D.r)],
         k |-> B.k, c |-> D.c]

RECURSIVE getSortedRecursive(_, _)
getSortedRecursive(h, n) ==
    IF n = Null THEN <<>>
    ELSE getSortedRecursive(h, h[n].left) \o <<h[n].value>> \o getSortedRecursive(h, h[n].right)

getSorted(h, root) == getSortedRecursive(h, root)

\* A string is the sequence of its pieces; the empty string is <<>>.
Str(v) == IF v = "" THEN <<>> ELSE <<v>>

\* `${n}` for the sizes the bounds allow
Digits == <<"0", "1", "2", "3", "4", "5", "6", "7", "8", "9">>

NumStr(n) == Digits[n + 1]

\* An indentation of one space per level
IndentOnce(level) == [i \in 1..level |-> " "]

\* '  '.repeat(level)
Indent(level) == [i \in 1..(2 * level) |-> " "]

\* '  '.repeat(level) + prefix + `${node.value} (L:${...}, R:${...})`
Line(h, n, level, prefix) ==
    Indent(level) \o Str(prefix) \o Str(h[n].value)
        \o <<" (L:", NumStr(size(h, h[n].left)), ", R:", NumStr(size(h, h[n].right)), ")">>

\* _inorderRecursive(node, level, prefix, lines): the lines it pushes
RECURSIVE inorderRecursive(_, _, _, _)
inorderRecursive(h, n, level, prefix) ==
    IF n = Null THEN <<>>
    ELSE inorderRecursive(h, h[n].left, level + 1, "/")
            \o <<Line(h, n, level, prefix)>>
            \o inorderRecursive(h, h[n].right, level + 1, "\\")

\* lines.join(sep)
RECURSIVE Join(_, _)
Join(lines, sep) ==
    IF Len(lines) = 0 THEN <<>>
    ELSE IF Len(lines) = 1 THEN lines[1]
    ELSE lines[1] \o <<sep>> \o Join(Tail(lines), sep)

getTreeString(h, root) == Join(inorderRecursive(h, root, 0, ""), "\n")

-----------------------------------------------------------------------------
(* Object identity and garbage collection *)

\* The node ids of the subtree of n, in in-order
RECURSIVE inOrderIds(_, _)
inOrderIds(h, n) ==
    IF n = Null THEN <<>>
    ELSE inOrderIds(h, h[n].left) \o <<n>> \o inOrderIds(h, h[n].right)

Range(s) == {s[i] : i \in 1..Len(s)}

\* The objects reachable from the set S of objects through any reference
RECURSIVE Reachable(_, _)
Reachable(h, S) ==
    LET T == (S \cup {h[n].left : n \in S} \cup {h[n].right : n \in S}
                \cup {h[n].parent : n \in S}) \ {Null}
    IN  IF T = S THEN S ELSE Reachable(h, T)

RECURSIVE Ascending(_)
Ascending(S) ==
    IF S = {} THEN <<>>
    ELSE LET m == CHOOSE x \in S : \A y \in S : x <= y
         IN  <<m>> \o Ascending(S \ {m})

\* The objects the program can still reach (from the tree's root and from the
\* host's currentNode): the tree's nodes in in-order, then the others
LiveOrder(h, root, cur) ==
    LET tids == inOrderIds(h, root)
    IN  tids \o Ascending(Reachable(h, {root, cur} \ {Null}) \ Range(tids))

\* The place of the object n in order
NewName(order, n) ==
    IF n = Null THEN Null ELSE CHOOSE k \in 1..Len(order) : order[k] = n

\* The objects of order, named by their place in it
Renumber(h, order, root, cur) ==
    [h    |-> [k \in 1..Len(order) |->
                 [value  |-> h[order[k]].value,
                  left   |-> NewName(order, h[order[k]].left),
                  right  |-> NewName(order, h[order[k]].right),
                  parent |-> NewName(order, h[order[k]].parent)]],
     root |-> NewName(order, root),
     cur  |-> NewName(order, cur)]

\* The heap with only the objects the program can still reach, the tree's nodes
\* named 1..k in in-order.
\* [h, root, cur]
Collect(h, root, cur) == Renumber(h, LiveOrder(h, root, cur), root, cur)

-----------------------------------------------------------------------------
(* Inputs *)

SeqsUpTo(S, n) == UNION {[1..k -> S] : k \in 1..n}

\* One list per multiset of values: the hosts read the submitted list only through
\* the shuffle, which yields every order of it.
NonDecreasing(s) == \A i \in 1..(Len(s) - 1) : Rank(s[i]) <= Rank(s[i + 1])

\* input.split('\n').map(s => s.trim()).filter(s => s): no empty string
TypedLists == {s \in SeqsUpTo(Values \ {""}, MaxItems) : NonDecreasing(s)}

\* The earlier host is given lists of pairwise distinct items.
DistinctLists == {s \in TypedLists : \A i, j \in 1..Len(s) : s[i] = s[j] => i = j}

\* data.items of an uploaded file: any non-empty array of strings
FileLists == {s \in SeqsUpTo(Values, MaxItems) : NonDecreasing(s)}

\* [...items].sort(() => Math.random() - 0.5): some order of the items
Shuffles(s) == {[i \in 1..Len(s) |-> s[p[i]]] : p \in Permutations(1..Len(s))}

\* A slice that keeps the first entry
SliceNone(s) == s

\* s.slice(1)
Slice1(s) == [i \in 1..(Len(s) - 1) |-> s[i + 1]]

\* A splice that always removes the first entry
SpliceFirst(s, i) == IF Len(s) > 0 THEN Tail(s) ELSE s

\* s.splice(i, 1) on a copy of s, i 0-based
Splice1(s, i) ==
    IF i < Len(s)
    THEN [k \in 1..(Len(s) - 1) |-> IF k <= i THEN s[k] ELSE s[k + 1]]
    ELSE s

NullSorted == [isNull |-> TRUE, list |-> <<>>]

Sorted(list) == [isNull |-> FALSE, list |-> list]

-----------------------------------------------------------------------------
(* App.tsx *)

Init ==
    /\ client \in {"App", "Legacy", "Lib"}
    /\ heap = <<>>
    /\ tree = NoTree
    /\ currentStep = "input"
    /\ items = <<>>
    /\ randomized = <<>>
    /\ currentIndex = 0
    /\ currentItem = NoItem
    /\ currentNode = Null
    /\ sorted = NullSorted
    /\ lastOp = "init"
    /\ lastDir = "none"
    /\ scapegoats = 0
    /\ lastValue = NoItem
    /\ lastCase = "none"
    /\ balanceCalls = 0
    /\ walks = <<>>
    /\ boundaries = <<>>
    /\ tierNames = <<>>

handleSubmit ==
    /\ client = "App"
    /\ currentStep = "input"
    /\ \E list \in TypedLists :
        /\ items' = list
        /\ currentStep' = "imageUpload"
    /\ lastOp' = "submit"
    /\ lastDir' = "none"
    /\ scapegoats' = 0
    /\ lastValue' = NoItem
    /\ lastCase' = "none"
    /\ balanceCalls' = 0
    /\ UNCHANGED <<boundaries, tierNames>>
    /\ UNCHANGED <<walks, client, heap, tree, randomized, currentIndex, currentItem,
                   currentNode, sorted>>

\* reader.onload of handleFileUpload.  imagesOk: data.images is an object, so that
\* Object.keys(data.images) (after the items are set) does not throw.
handleFileUpload ==
    /\ client = "App"
    /\ currentStep \in {"input", "imageUpload"}
    /\ \E list \in FileLists, imagesOk \in BOOLEAN :
        /\ items' = list
        /\ currentStep' = IF imagesOk THEN "imageUpload" ELSE "input"
    /\ lastOp' = "upload"
    /\ lastDir' = "none"
    /\ scapegoats' = 0
    /\ lastValue' = NoItem
    /\ lastCase' = "none"
    /\ balanceCalls' = 0
    /\ UNCHANGED <<boundaries, tierNames>>
    /\ UNCHANGED <<walks, client, heap, tree, randomized, currentIndex, currentItem,
                   currentNode, sorted>>

handleStartSorting ==
    /\ client = "App"
    /\ currentStep = "imageUpload"
    /\ Len(items) > 0
    /\ \E shuffled \in Shuffles(items) :
        \E T \in {NewTree(heap, shuffled[1])} :
        \E G \in {Collect(T.h, T.t.root, T.t.root)} :
        LET updatedRandomized == Slice1(shuffled)
        IN  /\ heap' = G.h
            /\ tree' = [T.t EXCEPT !.root = G.root]
            /\ randomized' = updatedRandomized
            /\ currentIndex' = 0
            /\ IF Len(updatedRandomized) > 0
               THEN /\ currentItem' = updatedRandomized[1]
                    /\ currentNode' = G.root
                    /\ currentStep' = "sorting"
                    /\ sorted' = sorted
               ELSE /\ sorted' = Sorted(getSorted(G.h, G.root))
                    /\ currentItem' = NoItem
                    /\ currentNode' = Null
                    /\ currentStep' = "tierSetting"
    /\ lastOp' = "start"
    /\ lastDir' = "none"
    /\ scapegoats' = 0
    /\ lastValue' = NoItem
    /\ lastCase' = "none"
    /\ balanceCalls' = 0
    /\ UNCHANGED <<boundaries, tierNames>>
    /\ UNCHANGED <<walks, client, items>>

\* A host that keeps the node the walk ended at
KeepComparisonNode(newRoot, node) == node

\* setCurrentNode(newTree.root) after an insertion: the next walk starts at the
\* root of the tree that is kept, not at the node the last walk ended at
NextComparisonNode(newRoot, node) == newRoot

\* handleComparison(better), lines 291-311: currentItem === currentNode.value
SelfComparison ==
    LET updatedRandomized == Splice1(randomized, currentIndex)
    IN  /\ randomized' = updatedRandomized
        /\ IF Len(updatedRandomized) > 0
           THEN /\ currentItem' = updatedRandomized[1]
                /\ currentIndex' = 0
                /\ currentNode' = tree.root
                /\ UNCHANGED <<sorted, currentStep>>
           ELSE /\ currentItem' = NoItem
                /\ currentNode' = Null
                /\ sorted' = Sorted(getSorted(heap, tree.root))
                /\ currentStep' = "tierSetting"
                /\ UNCHANGED currentIndex
        /\ lastOp' = "selfcompare"
        /\ lastDir' = "none"
        /\ scapegoats' = 0
        /\ lastCase' = "none"
        /\ balanceCalls' = 0
        /\ UNCHANGED <<heap, tree>>

\* handleComparison(better), lines 315-333: the slot holds a child
Descend(direction) ==
    /\ IF Len(randomized) > currentIndex + 1
       THEN /\ currentNode' = heap[currentNode][direction]
            /\ currentItem' = randomized[currentIndex + 2]
            /\ currentIndex' = currentIndex + 1
            /\ UNCHANGED <<sorted, currentStep>>
       ELSE IF Len(randomized) > 0
       THEN /\ currentNode' = heap[currentNode][direction]
            /\ currentItem' = randomized[1]
            /\ currentIndex' = 0
            /\ UNCHANGED <<sorted, currentStep>>
       ELSE /\ currentItem' = NoItem
            /\ currentNode' = Null
            /\ sorted' = Sorted(getSorted(heap, tree.root))
            /\ currentStep' = "tierSetting"
            /\ UNCHANGED currentIndex
    /\ lastOp' = "descend"
    /\ lastDir' = direction
    /\ scapegoats' = 0
    /\ lastCase' = "none"
    /\ balanceCalls' = 0
    /\ UNCHANGED <<heap, tree, randomized>>

\* handleComparison(better), lines 334-358: the slot is empty
Insert(direction) ==
    \E B \in {balance(addChild(heap, currentNode, currentItem, direction), tree.root)} :
    \E G \in {Collect(B.h, B.r, NextComparisonNode(B.r, currentNode))} :
    LET newTree == [present |-> TRUE, root |-> B.r, sizeCount |-> 0]
        updatedRandomized == Splice1(randomized, currentIndex)
    IN  /\ heap' = G.h
        /\ tree' = [newTree EXCEPT !.root = G.root]
        /\ randomized' = updatedRandomized
        /\ IF Len(updatedRandomized) > 0
           THEN /\ currentItem' = updatedRandomized[1]
                /\ currentNode' = G.cur
                /\ currentIndex' = 0
                /\ UNCHANGED <<sorted, currentStep>>
           ELSE /\ currentItem' = NoItem
                /\ currentNode' = Null
                /\ sorted' = Sorted(getSorted(G.h, G.root))
                /\ currentStep' = "tierSetting"
                /\ UNCHANGED currentIndex
        /\ lastOp' = "insert"
        /\ lastDir' = direction
        /\ scapegoats' = B.k
        /\ lastCase' = "none"
        /\ balanceCalls' = 0

\* A direction with the two outcomes exchanged
DirectionOfSwapped(better, nodeValue) == IF better = nodeValue THEN "left" ELSE "right"

\* const direction = better === currentNode.value ? 'right' : 'left'
DirectionOf(better, nodeValue) == IF better = nodeValue THEN "right" ELSE "left"

\* A test of the left slot whatever the direction
HasChildLeft(h, n, direction) == h[n].left # Null

\* const child = currentNode[direction]; if (child)
HasChild(h, n, direction) == h[n][direction] # Null

\* The two buttons of the sorting step call handleComparison(currentNode.value)
\* and handleComparison(currentItem); they are rendered when currentNode,
\* currentItem and tree are set.
handleComparison ==
    /\ client = "App"
    /\ currentStep = "sorting"
    /\ currentNode # Null /\ Truthy(currentItem) /\ tree.present
    /\ Len(randomized) > 0
    /\ \E better \in {heap[currentNode].value, currentItem} :
        /\ lastValue' = better
        /\ IF currentItem = heap[currentNode].value
           THEN SelfComparison
           ELSE LET direction == DirectionOf(better, heap[currentNode].value)
                IN  IF HasChild(heap, currentNode, direction)
                    THEN Descend(direction)
                    ELSE Insert(direction)
    /\ UNCHANGED <<boundaries, tierNames>>
    /\ UNCHANGED <<walks, client, items>>

-----------------------------------------------------------------------------
(* The earlier App.tsx (handleSubmit, handleDirection) *)

\* The input form is rendered while items is empty.
handleSubmitLegacy ==
    /\ client = "Legacy"
    /\ Len(items) = 0
    /\ \E list \in DistinctLists : \E shuffled \in Shuffles(list) :
        \E T \in {NewTree(heap, shuffled[1])} :
        \E G \in {Collect(T.h, T.t.root, T.t.root)} :
            /\ items' = list
            /\ randomized' = shuffled
            /\ heap' = G.h
            /\ tree' = [T.t EXCEPT !.root = G.root]
            /\ currentIndex' = 1
            /\ IF Len(shuffled) > 1
               THEN /\ currentItem' = shuffled[2]
                    /\ currentNode' = G.root
                    /\ sorted' = sorted
               ELSE /\ sorted' = Sorted(getSorted(G.h, G.root))
                    /\ UNCHANGED <<currentItem, currentNode>>
    /\ lastOp' = "start"
    /\ lastDir' = "none"
    /\ scapegoats' = 0
    /\ lastValue' = NoItem
    /\ lastCase' = "none"
    /\ balanceCalls' = 0
    /\ UNCHANGED <<boundaries, tierNames>>
    /\ UNCHANGED <<walks, client, currentStep>>

\* handleDirection(direction), lines 35-36: the slot holds a child
DescendLegacy(direction) ==
    /\ currentNode' = heap[currentNode][direction]
    /\ lastOp' = "descend"
    /\ lastDir' = direction
    /\ scapegoats' = 0
    /\ lastCase' = "none"
    /\ balanceCalls' = 0
    /\ UNCHANGED <<heap, tree, randomized, currentIndex, currentItem, sorted>>

\* handleDirection(direction), lines 37-59: the slot is empty
InsertLegacy(direction) ==
    \E B \in {balance(addChild(heap, currentNode, currentItem, direction), tree.root)} :
    \E G \in {Collect(B.h, B.r, NextComparisonNode(B.r, currentNode))} :
    LET newTree == [present |-> TRUE, root |-> B.r, sizeCount |-> 0]
        nextIdx == currentIndex + 1
    IN  /\ heap' = G.h
        /\ tree' = [newTree EXCEPT !.root = G.root]
        /\ IF nextIdx < Len(randomized)
           THEN /\ currentItem' = randomized[nextIdx + 1]
                /\ currentNode' = G.cur
                /\ currentIndex' = nextIdx
                /\ UNCHANGED sorted
           ELSE /\ currentItem' = NoItem
                /\ currentNode' = Null
                /\ sorted' = Sorted(getSorted(G.h, G.root))
                /\ UNCHANGED currentIndex
        /\ lastOp' = "insert"
        /\ lastDir' = direction
        /\ scapegoats' = B.k
        /\ lastCase' = "none"
        /\ balanceCalls' = 0
        /\ UNCHANGED randomized

\* 'Which is better?': the button labelled currentItem calls handleDirection('left'),
\* the button labelled currentNode.value calls handleDirection('right')
ButtonDirection(better, item) == IF better = item THEN "left" ELSE "right"

\* The two buttons are rendered when currentItem and currentNode are set; better is
\* the label of the button pressed.
handleDirection ==
    /\ client = "Legacy"
    /\ currentNode # Null /\ Truthy(currentItem) /\ tree.present
    /\ \E better \in {currentItem, heap[currentNode].value} :
        /\ lastValue' = better
        /\ LET direction == ButtonDirection(better, currentItem)
           IN  IF HasChild(heap, currentNode, direction)
               THEN DescendLegacy(direction)
               ELSE InsertLegacy(direction)
    /\ UNCHANGED <<boundaries, tierNames>>
    /\ UNCHANGED <<walks, client, currentStep, items>>

-----------------------------------------------------------------------------
(* A direct user of Tree.ts *)

TreeNodes == Range(inOrderIds(heap, tree.root))

StoredValues == {heap[n].value : n \in TreeNodes}

\* new Tree(value) or new Tree()
LibNew ==
    /\ client = "Lib"
    /\ ~tree.present
    /\ \E v \in Values \cup {NoItem} :
        \E T \in {NewTree(heap, v)} :
        \E G \in {Collect(T.h, T.t.root, Null)} :
            /\ heap' = G.h
            /\ tree' = [T.t EXCEPT !.root = G.root]
            /\ lastValue' = v
    /\ lastOp' = "new"
    /\ lastDir' = "none"
    /\ scapegoats' = 0
    /\ lastCase' = "none"
    /\ balanceCalls' = 0
    /\ UNCHANGED <<boundaries, tierNames>>
    /\ UNCHANGED <<walks, client, currentStep, items, randomized, currentIndex,
                   currentItem, currentNode, sorted>>

\* node.addChild(value, direction) on a node of the tree whose slot is empty, with
\* a non-empty value the tree does not hold
LibAddChild ==
    /\ client = "Lib"
    /\ tree.present
    /\ Cardinality(TreeNodes) < MaxNodes
    /\ \E n \in TreeNodes, d \in Directions, v \in (Values \ {""}) \ StoredValues :
        /\ heap[n][d] = Null
        /\ \E G \in {Collect(addChild(heap, n, v, d), tree.root, Null)} :
               /\ heap' = G.h
               /\ tree' = [tree EXCEPT !.root = G.root]
    /\ lastOp' = "addChild"
    /\ lastDir' = "none"
    /\ scapegoats' = 0
    /\ lastValue' = NoItem
    /\ lastCase' = "none"
    /\ balanceCalls' = 0
    /\ UNCHANGED <<boundaries, tierNames>>
    /\ UNCHANGED <<walks, client, currentStep, items, randomized, currentIndex,
                   currentItem, currentNode, sorted>>

\* tree.balance()
LibBalance ==
    /\ client = "Lib"
    /\ tree.present
    /\ \E B \in {balance(heap, tree.root)} :
       \E G \in {Collect(B.h, B.r, Null)} :
           /\ heap' = G.h
           /\ tree' = [tree EXCEPT !.root = G.root]
           /\ scapegoats' = B.k
    /\ balanceCalls' = IF balanceCalls < 2 THEN balanceCalls + 1 ELSE 2
    /\ lastValue' = NoItem
    /\ lastCase' = "none"
    /\ lastOp' = "balance"
    /\ lastDir' = "none"
    /\ UNCHANGED <<boundaries, tierNames>>
    /\ UNCHANGED <<walks, client, currentStep, items, randomized, currentIndex,
                   currentItem, currentNode, sorted>>

\* tree.delete(value)
LibDelete ==
    /\ client = "Lib"
    /\ tree.present
    /\ \E v \in Values :
        \E D \in {delete(heap, tree, v)} :
        \E G \in {Collect(D.h, D.t.root, Null)} :
            /\ heap' = G.h
            /\ tree' = [D.t EXCEPT !.root = G.root]
            /\ scapegoats' = D.k
            /\ lastValue' = v
            /\ lastCase' = D.c
    /\ balanceCalls' = 0
    /\ lastOp' = "delete"
    /\ lastDir' = "none"
    /\ UNCHANGED <<boundaries, tierNames>>
    /\ UNCHANGED <<walks, client, currentStep, items, randomized, currentIndex,
                   currentItem, currentNode, sorted>>

-----------------------------------------------------------------------------

Next ==
    \/ handleSubmit
    \/ handleFileUpload
    \/ handleStartSorting
    \/ handleComparison
    \/ handleSubmitLegacy
    \/ handleDirection
    \/ LibNew
    \/ LibAddChild
    \/ LibBalance
    \/ LibDelete

Spec == Init /\ [][Next]_vars

-----------------------------------------------------------------------------
(* One balance() pass over a tree of up to MaxShape nodes.  The objects are not
   collected here: an object keeps its index, so that the nodes a pass created
   are those with an index above the number of nodes the tree had before. *)

\* The value of the k-th node created
Letters == <<"A", "B", "C", "D", "E", "F", "G", "H", "I", "J", "K", "L">>

PassInit ==
    /\ client = "Pass"
    /\ heap = <<>>
    /\ tree = NoTree
    /\ currentStep = "input"
    /\ items = <<>>
    /\ randomized = <<>>
    /\ currentIndex = 0
    /\ currentItem = NoItem
    /\ currentNode = Null
    /\ sorted = NullSorted
    /\ lastOp = "init"
    /\ lastDir = "none"
    /\ scapegoats = 0
    /\ lastValue = NoItem
    /\ lastCase = "none"
    /\ balanceCalls = 0
    /\ walks = <<>>
    /\ boundaries = <<>>
    /\ tierNames = <<>>

\* new Tree(value)
PassNew ==
    /\ client = "Pass"
    /\ ~tree.present
    /\ \E T \in {NewTree(heap, Letters[1])} :
        /\ heap' = T.h
        /\ tree' = T.t
    /\ lastOp' = "new"
    /\ UNCHANGED <<boundaries, tierNames>>
    /\ UNCHANGED <<walks, client, currentStep, items, randomized, currentIndex, currentItem,
                   currentNode, sorted, lastDir, scapegoats, lastValue, lastCase,
                   balanceCalls>>

\* node.addChild(value, direction) on a node of the tree whose slot is empty
PassAddChild ==
    /\ client = "Pass"
    /\ lastOp \in {"new", "addChild"}
    /\ Len(heap) < MaxShape
    /\ \E n \in DOMAIN heap, d \in Directions :
        /\ heap[n][d] = Null
        /\ heap' = addChild(heap, n, Letters[Len(heap) + 1], d)
    /\ lastOp' = "addChild"
    /\ UNCHANGED <<boundaries, tierNames>>
    /\ UNCHANGED <<walks, client, tree, currentStep, items, randomized, currentIndex,
                   currentItem, currentNode, sorted, lastDir, scapegoats, lastValue,
                   lastCase, balanceCalls>>

\* tree.balance(), once
PassBalance ==
    /\ client = "Pass"
    /\ lastOp \in {"new", "addChild"}
    /\ \E B \in {balance(heap, tree.root)} :
        /\ heap' = B.h
        /\ tree' = [tree EXCEPT !.root = B.r]
        /\ scapegoats' = B.k
    /\ lastOp' = "balance"
    /\ UNCHANGED <<boundaries, tierNames>>
    /\ UNCHANGED <<walks, client, currentStep, items, randomized, currentIndex, currentItem,
                   currentNode, sorted, lastDir, lastValue, lastCase, balanceCalls>>

PassNext ==
    \/ PassNew
    \/ PassAddChild
    \/ PassBalance

PassSpec == PassInit /\ [][PassNext]_vars

-----------------------------------------------------------------------------
(* Two Insertion-Walks on one Tree with their steps interleaved.  Each walk runs
   the body of handleDirection with its own comparison node and pending item; a
   step of a walk (one decision) is atomic.  The objects are not collected here,
   so a walk can still hold a node that a rebuild has discarded. *)

Walkers == {1, 2}

\* A walk that holds no node and no item
Idle == [node |-> Null, item |-> NoItem]

WalksInit ==
    /\ client = "Walks"
    /\ heap = <<>>
    /\ tree = NoTree
    /\ currentStep = "input"
    /\ items = <<>>
    /\ randomized = <<>>
    /\ currentIndex = 0
    /\ currentItem = NoItem
    /\ currentNode = Null
    /\ sorted = NullSorted
    /\ lastOp = "init"
    /\ lastDir = "none"
    /\ scapegoats = 0
    /\ lastValue = NoItem
    /\ lastCase = "none"
    /\ balanceCalls = 0
    /\ walks = <<Idle, Idle>>
    /\ boundaries = <<>>
    /\ tierNames = <<>>

\* handleSubmit: the tree is made of the first shuffled item; currentIndex is the
\* index of the item handed out last
WalksStart ==
    /\ client = "Walks"
    /\ Len(items) = 0
    /\ \E list \in DistinctLists : \E shuffled \in Shuffles(list) :
        \E T \in {NewTree(heap, shuffled[1])} :
            /\ items' = list
            /\ randomized' = shuffled
            /\ heap' = T.h
            /\ tree' = T.t
    /\ currentIndex' = 0
    /\ lastOp' = "start"
    /\ UNCHANGED <<boundaries, tierNames>>
    /\ UNCHANGED <<walks, client, currentStep, currentItem, currentNode, sorted, lastDir,
                   scapegoats, lastValue, lastCase, balanceCalls>>

\* setCurrentItem(randomized[nextIdx]); setCurrentNode(newTree.root): the walk w
\* takes the next item and starts at the root
WalkBegin(w) ==
    /\ client = "Walks"
    /\ tree.present
    /\ walks[w] = Idle
    /\ currentIndex + 1 < Len(randomized)
    /\ walks' = [walks EXCEPT ![w] = [node |-> tree.root,
                                      item |-> randomized[currentIndex + 2]]]
    /\ currentIndex' = currentIndex + 1
    /\ lastOp' = "begin"
    /\ lastDir' = "none"
    /\ scapegoats' = 0
    /\ lastValue' = NoItem
    /\ UNCHANGED <<boundaries, tierNames>>
    /\ UNCHANGED <<client, heap, tree, currentStep, items, randomized, currentItem,
                   currentNode, sorted, lastCase, balanceCalls>>

\* handleDirection(direction) of the walk w: move to the child, or add the pending
\* item as a child of the node held, balance the tree and end the walk
WalkDecide(w) ==
    /\ client = "Walks"
    /\ walks[w].node # Null /\ Truthy(walks[w].item) /\ tree.present
    /\ \E direction \in Directions :
        /\ lastDir' = direction
        /\ IF HasChild(heap, walks[w].node, direction)
           THEN /\ walks' = [walks EXCEPT ![w].node = heap[walks[w].node][direction]]
                /\ lastOp' = "descend"
                /\ scapegoats' = 0
                /\ lastValue' = NoItem
                /\ UNCHANGED <<heap, tree>>
           ELSE \E B \in {balance(addChild(heap, walks[w].node, walks[w].item, direction),
                                  tree.root)} :
                /\ heap' = B.h
                /\ tree' = [present |-> TRUE, root |-> B.r, sizeCount |-> 0]
                /\ walks' = [walks EXCEPT ![w] = Idle]
                /\ lastOp' = "insert"
                /\ scapegoats' = B.k
                /\ lastValue' = walks[w].item
    /\ UNCHANGED <<boundaries, tierNames>>
    /\ UNCHANGED <<client, currentStep, items, randomized, currentIndex, currentItem,
                   currentNode, sorted, lastCase, balanceCalls>>

\* setSorted(newTree.getSorted()) once every item was handed out and every walk
\* has ended
WalksRead ==
    /\ client = "Walks"
    /\ tree.present
    /\ sorted.isNull
    /\ currentIndex + 1 = Len(randomized)
    /\ \A w \in Walkers : walks[w] = Idle
    /\ sorted' = Sorted(getSorted(heap, tree.root))
    /\ lastOp' = "read"
    /\ lastDir' = "none"
    /\ scapegoats' = 0
    /\ lastValue' = NoItem
    /\ UNCHANGED <<boundaries, tierNames>>
    /\ UNCHANGED <<walks, client, heap, tree, currentStep, items, randomized, currentIndex,
                   currentItem, currentNode, lastCase, balanceCalls>>

WalksNext ==
    \/ WalksStart
    \/ \E w \in Walkers : WalkBegin(w)
    \/ \E w \in Walkers : WalkDecide(w)
    \/ WalksRead

WalksSpec == WalksInit /\ [][WalksNext]_vars

-----------------------------------------------------------------------------
(* App.tsx, the tier-setting step: the boundaries placed in the ranked sequence *)

\* boundaries.includes(index)
Includes(s, x) == \E i \in 1..Len(s) : s[i] = x

\* boundaries.indexOf(x), for an x that s holds
IndexOf(s, x) == (CHOOSE i \in 1..Len(s) : s[i] = x /\ \A j \in 1..(i - 1) : s[j] # x) - 1

\* A sort that leaves the array as it is
SortSkipped(s) == s

\* s.sort((a, b) => a - b)
RECURSIVE SortNumeric(_)
SortNumeric(s) ==
    IF Len(s) <= 1 THEN s
    ELSE LET m    == CHOOSE i \in 1..Len(s) : \A j \in 1..Len(s) : s[i] <= s[j]
             rest == [k \in 1..(Len(s) - 1) |-> IF k < m THEN s[k] ELSE s[k + 1]]
         IN  <<s[m]>> \o SortNumeric(rest)

\* s.slice(start, end), for 0 <= start
SliceTo(s, start, end) ==
    LET stop == IF end < Len(s) THEN end ELSE Len(s)
    IN  IF stop <= start THEN <<>> ELSE [k \in 1..(stop - start) |-> s[start + k]]

\* A limit that lets an eighth boundary in
CanAddBoundaryAtLimit(b) == Len(b) <= 7

\* else if (boundaries.length < 7)
CanAddBoundary(b) == Len(b) < 7

\* tierNames[idx] || ''
TierName(names, idx) == IF idx < Len(names) THEN names[idx + 1] ELSE ""

\* The boundaries.forEach of getTiers() from the idx-th boundary on, start being
\* the index the next tier starts at
RECURSIVE tiersFrom(_, _, _, _, _)
tiersFrom(list, b, names, idx, start) ==
    IF idx >= Len(b)
    THEN <<[name |-> TierName(names, Len(b)), items |-> SliceTo(list, start, Len(list))]>>
    ELSE <<[name |-> TierName(names, idx), items |-> SliceTo(list, start, b[idx + 1])]>>
         \o tiersFrom(list, b, names, idx + 1, b[idx + 1])

\* getTiers()
getTiers(srt, b, names) ==
    IF srt.isNull THEN <<>> ELSE tiersFrom(srt.list, b, names, 0, 0)

\* The indices of the gaps and boundaries rendered: idx + 1 for idx < sorted.length - 1
GapIndices == 1..(Len(sorted.list) - 1)

\* The texts typed as a tier's name
TierNameValues == {"", "S"}

\* The tier-setting step as the sorting step leaves it, with a ranked sequence of
\* 1..MaxRanked items in a balanced tree
TierInit ==
    /\ client = "Tiers"
    /\ \E n \in 1..MaxRanked :
        \E B \in {buildBalancedTree([i \in 1..n |-> Node(Letters[i])],
                                    [i \in 1..n |-> i], 0, n - 1)} :
            /\ heap = B.h
            /\ tree = [present |-> TRUE, root |-> B.r, sizeCount |-> 0]
            /\ items = getSorted(B.h, B.r)
            /\ sorted = Sorted(getSorted(B.h, B.r))
    /\ currentStep = "tierSetting"
    /\ randomized = <<>>
    /\ currentIndex = 0
    /\ currentItem = NoItem
    /\ currentNode = Null
    /\ lastOp = "sorted"
    /\ lastDir = "none"
    /\ scapegoats = 0
    /\ lastValue = NoItem
    /\ lastCase = "none"
    /\ balanceCalls = 0
    /\ walks = <<>>
    /\ boundaries = <<>>
    /\ tierNames = <<>>

addBoundary(index) ==
    LET newBoundaries == SortNumeric(Append(boundaries, index))
    IN  /\ boundaries' = newBoundaries
        /\ tierNames' = IF Len(newBoundaries) > Len(tierNames)
                        THEN Append(tierNames, "")
                        ELSE tierNames

removeBoundary(index) ==
    /\ boundaries' = SelectSeq(boundaries, LAMBDA b : b # index)
    /\ LET kept == {i \in 0..(Len(tierNames) - 1) :
                        i < Len(boundaries) - 1 \/ Includes(boundaries, index - 1)}
       IN  tierNames' = [k \in 1..Cardinality(kept) |-> tierNames[k]]

\* onClick of a Gap or a Boundary
toggleBoundary ==
    /\ client = "Tiers"
    /\ currentStep = "tierSetting" /\ ~sorted.isNull
    /\ \E index \in GapIndices :
        IF Includes(boundaries, index)
        THEN removeBoundary(index)
        ELSE IF CanAddBoundary(boundaries)
        THEN addBoundary(index)
        ELSE UNCHANGED <<boundaries, tierNames>>
    /\ lastOp' = "toggleBoundary"
    /\ UNCHANGED <<client, heap, tree, currentStep, items, randomized, currentIndex,
                   currentItem, currentNode, sorted, lastDir, scapegoats, lastValue,
                   lastCase, balanceCalls, walks>>

\* drop of a Boundary (oldIndex) on a Gap (newIndex)
moveBoundary ==
    /\ client = "Tiers"
    /\ currentStep = "tierSetting" /\ ~sorted.isNull
    /\ \E oldIndex \in Range(boundaries), newIndex \in GapIndices \ Range(boundaries) :
        IF oldIndex = newIndex
        THEN UNCHANGED boundaries
        ELSE boundaries' = SortNumeric(Append(SelectSeq(boundaries,
                                                        LAMBDA b : b # oldIndex),
                                              newIndex))
    /\ lastOp' = "moveBoundary"
    /\ UNCHANGED <<client, heap, tree, currentStep, items, randomized, currentIndex,
                   currentItem, currentNode, sorted, lastDir, scapegoats, lastValue,
                   lastCase, balanceCalls, walks, tierNames>>

\* onChange of a tier's name input: the first tier's, or the one rendered at a
\* boundary
updateTierName ==
    /\ client = "Tiers"
    /\ currentStep = "tierSetting" /\ ~sorted.isNull
    /\ \E index \in {0} \cup {IndexOf(boundaries, b) + 1 : b \in Range(boundaries)},
          name \in TierNameValues :
        /\ tierNames' = IF index < Len(tierNames)
                        THEN [tierNames EXCEPT ![index + 1] = name]
                        ELSE Append(tierNames, name)
        /\ index <= MaxNamed
    /\ lastOp' = "updateTierName"
    /\ UNCHANGED <<client, heap, tree, currentStep, items, randomized, currentIndex,
                   currentItem, currentNode, sorted, lastDir, scapegoats, lastValue,
                   lastCase, balanceCalls, walks, boundaries>>

handleLock ==
    /\ client = "Tiers"
    /\ currentStep = "tierSetting" /\ ~sorted.isNull
    /\ currentStep' = "locked"
    /\ lastOp' = "lock"
    /\ UNCHANGED <<client, heap, tree, items, randomized, currentIndex, currentItem,
                   currentNode, sorted, lastDir, scapegoats, lastValue, lastCase,
                   balanceCalls, walks, boundaries, tierNames>>

TierNext ==
    \/ toggleBoundary
    \/ moveBoundary
    \/ updateTierName
    \/ handleLock

TierSpec == TierInit /\ [][TierNext]_vars

-----------------------------------------------------------------------------
(* Properties *)

Hosts == {"App", "Legacy"}

\* |size(n.left) - size(n.right)| <= 1 at every node of the tree
BalancedAtEveryNode == \A n \in TreeNodes : balanceFactor(heap, n) <= 1

\* A decision is awaited: the comparison buttons are rendered
AwaitingDecision ==
    /\ client \in Hosts
    /\ currentNode # Null /\ Truthy(currentItem) /\ tree.present
    /\ client = "App" => currentStep = "sorting"

\* C1: in both hosts, after every walk termination (addChild followed by
\* balance()), whatever the decisions were, every node of the tree has left and
\* right subtree sizes that differ by at most 1.
C1_BalancedAfterEachInsertion ==
    (client \in Hosts /\ lastOp = "insert") => BalancedAtEveryNode

\* C1 witness: a host's insertion whose balance() found a scapegoat and rebuilt.
C1_Witness ==
    /\ client \in Hosts /\ lastOp = "insert"
    /\ scapegoats >= 1
    /\ Cardinality(TreeNodes) >= 3

\* C2: for every tree shape the direct user builds with addChild calls and no
\* balance() in between, one call of balance() leaves every node with subtree
\* sizes that differ by at most 1.
C2_OneBalancePassSuffices ==
    (client = "Lib" /\ lastOp = "balance") => BalancedAtEveryNode

\* C2 witness: a balance() call that rebuilt a subtree and then the subtree of an
\* ancestor of it (two scapegoats in one pass).
C2_Witness ==
    /\ client = "Lib" /\ lastOp = "balance"
    /\ scapegoats >= 2
    /\ Cardinality(TreeNodes) = MaxNodes

Count(s, v) == Cardinality({i \in 1..Len(s) : s[i] = v})

IsPermutation(s, t) == Len(s) = Len(t) /\ \A v \in Values : Count(s, v) = Count(t, v)

PairwiseDistinct(s) == \A i, j \in 1..Len(s) : s[i] = s[j] => i = j

\* The position of node n in the in-order sequence of the tree
PositionOf(h, root, n) ==
    LET ids == inOrderIds(h, root) IN CHOOSE i \in 1..Len(ids) : ids[i] = n

\* s with v put in just before position i
InsertBefore(s, i, v) ==
    [k \in 1..(Len(s) + 1) |-> IF k < i THEN s[k] ELSE IF k = i THEN v ELSE s[k - 1]]

\* C3: once a host has inserted a whole list of pairwise distinct items (the first
\* as the initial root, each other one by a terminated walk) and read getSorted(),
\* the sequence read holds every item of the list exactly once and nothing else.
C3_SortedHoldsEveryInsertedValueOnce ==
    (client \in Hosts /\ ~sorted.isNull /\ PairwiseDistinct(items))
        => IsPermutation(sorted.list, items)

\* C4: when a walk for the pending value v ends at node x with decision 'left'
\* (resp. 'right'), getSorted() after the handler is getSorted() before it with v
\* put in just before (resp. just after) x's value, the rest in the same order.
C4_InsertedBesideComparisonNode ==
    [][(client \in Hosts /\ lastOp' = "insert") =>
          LET before == getSorted(heap, tree.root)
              x      == PositionOf(heap, tree.root, currentNode)
          IN  /\ currentNode \in TreeNodes
              /\ getSorted(heap', tree'.root) =
                   InsertBefore(before, IF lastDir' = "left" THEN x ELSE x + 1,
                                currentItem)]_vars

\* C4 witness: a walk that ended with 'left' below the root, in a tree that then
\* holds four values.
C4_Witness ==
    /\ client \in Hosts /\ lastOp = "insert" /\ lastDir = "left"
    /\ Cardinality(TreeNodes) = 4
    /\ heap[tree.root].left # Null /\ heap[tree.root].right # Null

\* C5: a decision with direction d at the current comparison node c either finds a
\* child in slot d, and then only moves the current comparison node to that child
\* (the tree is unchanged, nothing is inserted or read), or finds slot d empty,
\* and then addChild puts a new node holding the pending value in slot d of c with
\* parent c, and the walk is over (the tree has one node more, and the host is back
\* at the root or has read the ranked sequence).
C5_DecisionDescendsOrAddsChild ==
    [][(client \in Hosts /\ lastOp' \in {"descend", "insert"}) =>
          /\ AwaitingDecision
          /\ lastOp' = "descend" <=> heap[currentNode][lastDir'] # Null
          /\ lastOp' = "descend" =>
                /\ currentNode' = heap[currentNode][lastDir']
                /\ heap' = heap /\ tree' = tree
                /\ randomized' = randomized /\ sorted' = sorted
          /\ lastOp' = "insert" =>
                LET h1 == addChild(heap, currentNode, currentItem, lastDir')
                    c  == h1[currentNode][lastDir']
                IN  /\ c \notin DOMAIN heap
                    /\ h1[c] = [value |-> currentItem, left |-> Null,
                                right |-> Null, parent |-> currentNode]
                    /\ \A n \in DOMAIN heap :
                          h1[n] = IF n = currentNode
                                  THEN [heap[n] EXCEPT ![lastDir'] = c]
                                  ELSE heap[n]
                    /\ size(heap', tree'.root) = size(heap, tree.root) + 1
                    /\ \/ currentNode' = tree'.root /\ sorted' = sorted
                       \/ currentNode' = Null /\ ~sorted'.isNull]_vars

\* C5 witness: a walk in App.tsx that descended from the root of a three-node tree
\* and ended below it, after which the host read the ranked sequence.
C5_Witness ==
    /\ client = "App" /\ lastOp = "insert"
    /\ Cardinality(TreeNodes) = 4
    /\ ~sorted.isNull

\* C6: a decision that descends to an existing child leaves the pending value (and
\* the tree) as it was: only the current comparison node changes.
C6_PendingValueFixedDuringWalk ==
    [][(client \in Hosts /\ lastOp' = "descend") =>
          /\ currentItem' = currentItem
          /\ heap' = heap /\ tree' = tree]_vars

\* C7: a walk ends with addChild only on an empty slot of a node of the tree: the
\* handler that ends a walk leaves exactly one node more reachable from the root,
\* and every value stored before is stored as often after.
C7_WalkNeverOverwritesASlot ==
    [][(client \in Hosts /\ lastOp' = "insert") =>
          /\ currentNode \in TreeNodes
          /\ heap[currentNode][lastDir'] = Null
          /\ size(heap', tree'.root) = size(heap, tree.root) + 1
          /\ \A v \in Values :
                Count(getSorted(heap', tree'.root), v)
                    >= Count(getSorted(heap, tree.root), v)]_vars

\* C7 witness: a walk that ended at a node whose other slot was occupied.
C7_Witness ==
    /\ client \in Hosts /\ lastOp = "insert"
    /\ scapegoats = 0
    /\ Cardinality(TreeNodes) = 3

\* C8: whenever a host awaits a decision, and whenever it has read the ranked
\* sequence, the tree it holds has been balanced since the last addChild: every
\* node's subtree sizes differ by at most 1, and the sequence read is that of the
\* balanced tree.
C8_BalancedWheneverDecisionAwaited ==
    /\ AwaitingDecision => BalancedAtEveryNode
    /\ (client \in Hosts /\ ~sorted.isNull) =>
          /\ BalancedAtEveryNode
          /\ sorted.list = getSorted(heap, tree.root)

\* C8 witness: a decision is awaited right after an insertion that needed a rebuild.
C8_Witness ==
    /\ AwaitingDecision
    /\ lastOp = "insert" /\ scapegoats >= 1

\* C9: after every completed mutation (construction, a walk's end followed by
\* balance(), delete), sizeCount of the Tree that is kept equals the number of
\* nodes reachable from its root.
C9_SizeCountAccurate ==
    (tree.present /\ (client \in Hosts \/ lastOp \in {"new", "delete"}))
        => tree.sizeCount = size(heap, tree.root)

\* C10: after every completed operation the root has no parent, and every other
\* node's parent is a node of the tree exactly one of whose slots refers to it.
C10_ParentConsistency ==
    tree.present =>
        /\ tree.root # Null => heap[tree.root].parent = Null
        /\ \A n \in TreeNodes \ {tree.root} :
              /\ heap[n].parent \in TreeNodes
              /\ (heap[heap[n].parent].left = n) # (heap[heap[n].parent].right = n)

\* C10 witness: a delete that spliced out a node and whose balance() rebuilt the
\* rest.
C10_Witness ==
    /\ client = "Lib" /\ lastOp = "delete"
    /\ scapegoats >= 1
    /\ Cardinality(TreeNodes) = 3

\* C11: a balance() call that follows a balance() call with no mutation in between
\* logs no scapegoat and returns the very heap it was given (same objects, same
\* references, same values) with the same root; and a balance() call on a tree of
\* one node, whenever it comes, does the same.
C11_SecondBalanceChangesNothing ==
    [][(client = "Lib" /\ lastOp' = "balance"
            /\ (balanceCalls' = 2 \/ size(heap, tree.root) = 1)) =>
          /\ scapegoats' = 0
          /\ balance(heap, tree.root) = [h |-> heap, r |-> tree.root, k |-> 0]
          /\ heap' = heap /\ tree' = tree]_vars

\* C11 witness: a second balance() in a row on a tree of MaxNodes nodes.
C11_Witness ==
    /\ client = "Lib" /\ lastOp = "balance"
    /\ balanceCalls = 2
    /\ Cardinality(TreeNodes) = MaxNodes

\* s without its elements equal to v
Remove(s, v) == SelectSeq(s, LAMBDA x : x # v)

StrictlyIncreasing(s) == \A i \in 1..(Len(s) - 1) : StrLt(s[i], s[i + 1])

\* C12: after delete(v) on a tree of pairwise distinct values put in place by
\* arbitrary decisions, getSorted() does not contain v.
C12_DeletedValueIsGone ==
    [][(client = "Lib" /\ lastOp' = "delete"
            /\ PairwiseDistinct(getSorted(heap, tree.root))) =>
          Count(getSorted(heap', tree'.root), lastValue') = 0]_vars

\* C13: when the in-order sequence of the tree is strictly increasing in the
\* lexical order and holds v, getSorted() after delete(v) is getSorted() before it
\* with v taken out: every other value once, in the same order.
C13_DeleteKeepsTheOthersInOrder ==
    [][(client = "Lib" /\ lastOp' = "delete"
            /\ StrictlyIncreasing(getSorted(heap, tree.root))
            /\ lastValue' \in StoredValues) =>
          /\ getSorted(heap', tree'.root) = Remove(getSorted(heap, tree.root), lastValue')
          /\ Len(getSorted(heap', tree'.root)) = Len(getSorted(heap, tree.root)) - 1
          /\ lastCase' \in {"spliced", "successor"}]_vars

\* C13 witness: delete("B") at the root of the tree with in-order sequence
\* A, B, C, D, a node with two children: the root now holds the value of its
\* in-order successor C, between A and D, and nothing was rebuilt.
C13_Witness ==
    /\ client = "Lib" /\ lastOp = "delete" /\ lastCase = "successor"
    /\ lastValue = "B" /\ scapegoats = 0
    /\ getSorted(heap, tree.root) = <<"A", "C", "D">>
    /\ heap[tree.root].value = "C"
    /\ heap[tree.root].left # Null /\ heap[tree.root].right # Null

\* C14: the direct user's tree, built from pairwise distinct values put in any
\* empty slot (the slots the walks' decisions can reach) and changed by delete(v)
\* and balance() calls, never holds a value twice.
C14_NoValueStoredTwice ==
    client = "Lib" => PairwiseDistinct(getSorted(heap, tree.root))

\* C15 as stated: delete(v) for a value the tree does not hold leaves the tree's
\* shape, values and getSorted() as they were.
C15_AbsentDeleteChangesNothing ==
    [][(client = "Lib" /\ lastOp' = "delete" /\ lastValue' \notin StoredValues) =>
          /\ heap' = heap /\ tree'.root = tree.root
          /\ getSorted(heap', tree'.root) = getSorted(heap, tree.root)]_vars

\* C15: delete(v) for a value the tree does not hold finds no node to take out and
\* leaves getSorted() as it was; when every node of the tree was balanced before
\* the call, it also leaves the tree's shape and its node objects as they were
\* (delete ends with balance(), which rebuilds an unbalanced tree).
C15_AbsentDeleteKeepsTheSequence ==
    [][(client = "Lib" /\ lastOp' = "delete" /\ lastValue' \notin StoredValues) =>
          /\ lastCase' = "absent"
          /\ getSorted(heap', tree'.root) = getSorted(heap, tree.root)
          /\ BalancedAtEveryNode =>
                /\ scapegoats' = 0
                /\ delete(heap, tree, lastValue').h = heap
                /\ heap' = heap /\ tree'.root = tree.root]_vars

\* C15 witness: delete of a value the tree does not hold, on a balanced tree of
\* three nodes.
C15_Witness ==
    /\ client = "Lib" /\ lastOp = "delete" /\ lastCase = "absent"
    /\ Truthy(lastValue) /\ lastValue \notin StoredValues
    /\ scapegoats = 0
    /\ Cardinality(TreeNodes) = 3 /\ BalancedAtEveryNode

\* C16: on a tree without a root, getSorted() is the empty sequence and
\* getTreeString() the empty string, and delete(v) and balance() leave the root
\* absent, sizeCount at 0 and no node object behind, without failing.
C16_EmptyTreeOperationsAreNoOps ==
    [][(client = "Lib" /\ tree.present /\ tree.root = Null
            /\ lastOp' \in {"delete", "balance"}) =>
          /\ getSorted(heap, tree.root) = <<>>
          /\ getTreeString(heap, tree.root) = <<>>
          /\ tree'.root = Null /\ tree'.sizeCount = 0 /\ heap' = <<>>
          /\ scapegoats' = 0
          /\ getSorted(heap', tree'.root) = <<>>
          /\ getTreeString(heap', tree'.root) = <<>>]_vars

\* C16 witness: delete("A") was called on a tree without a root.
C16_Witness ==
    /\ client = "Lib" /\ lastOp = "delete" /\ lastCase = "absent"
    /\ lastValue = "A"
    /\ tree.present /\ tree.root = Null

\* C17: new Tree(v) for a string v gives a tree of one node: the root holds v and
\* has no child and no parent, size(root) = 1 and sizeCount = 1; new Tree() gives
\* the tree without a root, with sizeCount = 0.
C17_ConstructorMakesSingleNodeTree ==
    (client = "Lib" /\ lastOp = "new") =>
        IF lastValue = NoItem
        THEN tree.root = Null /\ tree.sizeCount = 0 /\ heap = <<>>
        ELSE /\ tree.root # Null
             /\ heap = <<[value |-> lastValue, left |-> Null, right |-> Null,
                          parent |-> Null]>>
             /\ size(heap, tree.root) = 1
             /\ tree.sizeCount = 1

\* C18 as stated: when the pending item is chosen as the better one the decision
\* is 'right', when the comparison node's value is chosen it is 'left'; with root
\* "A" and pending "B" chosen, getSorted() becomes A, B.
C18_WinnerGoesRight ==
    [][(client \in Hosts /\ lastOp' \in {"descend", "insert"}) =>
          /\ lastValue' = currentItem => lastDir' = "right"
          /\ lastValue' = heap[currentNode].value => lastDir' = "left"
          /\ (getSorted(heap, tree.root) = <<"A">> /\ currentItem = "B"
                /\ lastValue' = "B")
                => getSorted(heap', tree'.root) = <<"A", "B">>]_vars

\* C18: in both hosts, when the pending item is chosen as the better one the
\* decision is 'left', when the comparison node's value is chosen it is 'right';
\* with root "A" and pending "B" chosen, getSorted() becomes B, A.
C18_WinnerGoesLeft ==
    [][(client \in Hosts /\ lastOp' \in {"descend", "insert"}) =>
          /\ lastValue' \in {currentItem, heap[currentNode].value}
          /\ lastValue' = currentItem <=> lastDir' = "left"
          /\ lastValue' = heap[currentNode].value <=> lastDir' = "right"
          /\ (getSorted(heap, tree.root) = <<"A">> /\ currentItem = "B"
                /\ lastValue' = "B")
                => getSorted(heap', tree'.root) = <<"B", "A">>]_vars

\* C18 witness: with root "A", the pending "B" was chosen and became A's left child.
C18_Witness ==
    /\ client \in Hosts /\ lastOp = "insert"
    /\ lastValue = "B" /\ lastDir = "left"
    /\ heap[tree.root].value = "A"
    /\ getSorted(heap, tree.root) = <<"B", "A">>

\* The number of parent references from n up to the root
RECURSIVE Depth(_, _)
Depth(h, n) == IF h[n].parent = Null THEN 0 ELSE 1 + Depth(h, h[n].parent)

\* The marker of the slot of its parent that refers to n
Marker(h, n) ==
    IF h[n].parent = Null THEN ""
    ELSE IF h[h[n].parent].left = n THEN "/" ELSE "\\"

\* The string s cut at its separators
RECURSIVE Split(_, _)
Split(s, sep) ==
    IF \A i \in 1..Len(s) : s[i] # sep THEN <<s>>
    ELSE LET i == CHOOSE j \in 1..Len(s) : s[j] = sep /\ \A k \in 1..(j - 1) : s[k] # sep
         IN  <<SubSeq(s, 1, i - 1)>> \o Split(SubSeq(s, i + 1, Len(s)), sep)

\* C19: getTreeString() of a tree with nodes is one line per node, in the order
\* of getSorted(); the line of a node starts with twice its depth in spaces, then
\* the marker of its slot, its value and the sizes of its left and right subtrees.
\* A tree of one node gives one line.
C19_TreeStringHasOneLinePerNode ==
    (tree.present /\ tree.root # Null) =>
        LET ids   == inOrderIds(heap, tree.root)
            lines == Split(getTreeString(heap, tree.root), "\n")
        IN  /\ Len(lines) = size(heap, tree.root)
            /\ Len(lines) = Len(getSorted(heap, tree.root))
            /\ \A k \in 1..Len(lines) :
                  LET n == ids[k]
                      d == 2 * Depth(heap, n)
                  IN  /\ Len(lines[k]) > d
                      /\ \A i \in 1..d : lines[k][i] = " "
                      /\ SubSeq(lines[k], d + 1, Len(lines[k])) =
                            Str(Marker(heap, n)) \o Str(getSorted(heap, tree.root)[k])
                              \o <<" (L:", NumStr(size(heap, heap[n].left)),
                                   ", R:", NumStr(size(heap, heap[n].right)), ")">>

\* C19 witness: the earlier App.tsx renders getTreeString() of a tree of four
\* nodes, one of them at depth 2.
C19_Witness ==
    /\ client = "Legacy" /\ tree.present
    /\ Cardinality(TreeNodes) = 4
    /\ \E n \in TreeNodes : Depth(heap, n) = 2

\* C20: getSorted() right after a balance() call is getSorted() right before it,
\* whatever the shape of the tree and however many subtrees the pass rebuilt.
C20_BalanceKeepsTheSequence ==
    [][(client = "Lib" /\ lastOp' = "balance") =>
          /\ getSorted(heap', tree'.root) = getSorted(heap, tree.root)
          /\ LET B == balance(heap, tree.root)
             IN  getSorted(B.h, B.r) = getSorted(heap, tree.root)]_vars

\* C20 witness: a first balance() call that rebuilt a subtree and then the subtree
\* of an ancestor of it, of a tree of four values not in lexical order.
C20_Witness ==
    /\ client = "Lib" /\ lastOp = "balance" /\ balanceCalls = 1
    /\ scapegoats >= 2
    /\ Len(getSorted(heap, tree.root)) = 4
    /\ ~StrictlyIncreasing(getSorted(heap, tree.root))

\* n and the nodes above it
RECURSIVE AncestorsOrSelf(_, _)
AncestorsOrSelf(h, n) ==
    IF n = Null THEN {} ELSE {n} \cup AncestorsOrSelf(h, h[n].parent)

\* The nodes balance() finds to be scapegoats: a rebuild keeps the sizes of the
\* subtrees, so a node is tested with the sizes it has before the pass.
Scapegoats(h) == {a \in DOMAIN h : IsScapegoat(h, a)}

\* The nodes in the subtree of a scapegoat
Rebuilt(h) == {n \in DOMAIN h : AncestorsOrSelf(h, n) \cap Scapegoats(h) # {}}

\* C21: after a balance() pass, the node objects of the old tree still reachable
\* from the root are exactly those that were in no scapegoat's subtree, each with
\* the value it had; the other nodes of the tree are objects created by the pass,
\* as many as there were nodes in scapegoats' subtrees, and the values read in
\* in-order are the old ones.
C21_NoNodeSurvivesARebuild ==
    [][(client = "Pass" /\ lastOp' = "balance") =>
          LET old   == DOMAIN heap
              after == Range(inOrderIds(heap', tree'.root))
          IN  /\ after \cap old = old \ Rebuilt(heap)
              /\ \A n \in old \ Rebuilt(heap) : heap'[n].value = heap[n].value
              /\ \A n \in after \ old : n > Len(heap)
              /\ Cardinality(after \ old) = Cardinality(Rebuilt(heap))
              /\ getSorted(heap', tree'.root) = getSorted(heap, tree.root)
              /\ scapegoats' = Cardinality(Scapegoats(heap))]_vars

\* C21 witness: a pass over six nodes rebuilt a subtree below the root: the root
\* is the object it was, and three nodes of the tree are new objects.
C21_Witness ==
    /\ client = "Pass" /\ lastOp = "balance"
    /\ scapegoats = 1
    /\ size(heap, tree.root) = 6
    /\ tree.root <= 6
    /\ Cardinality({n \in Range(inOrderIds(heap, tree.root)) : n > 6}) = 3

\* C22: after a balance() pass, every node of the tree that the pass created is
\* the root of a rebuilt range: of the k values of its subtree in in-order it holds
\* the one at index floor((k - 1) / 2) (from 0), and its right subtree has as many
\* nodes as its left one, or one more.
C22_RebuildTakesTheMidpoint ==
    (client = "Pass" /\ lastOp = "balance") =>
        \A m \in Range(inOrderIds(heap, tree.root)) :
            m > size(heap, tree.root) =>
                LET s == getSortedRecursive(heap, m)
                    k == Len(s)
                IN  /\ heap[m].value = s[((k - 1) \div 2) + 1]
                    /\ size(heap, heap[m].left) = (k - 1) \div 2
                    /\ size(heap, heap[m].right) - size(heap, heap[m].left) \in {0, 1}

\* C22 witness: a pass rebuilt a whole tree of six nodes (the root is a new object).
C22_Witness ==
    /\ client = "Pass" /\ lastOp = "balance"
    /\ size(heap, tree.root) = 6
    /\ tree.root > 6

-----------------------------------------------------------------------------
\* C24: at the end of every balance() call, on any tree, _verifyBalance(root) is
\* true: the branches that warn 'Tree is not balanced' are never taken.
C24_VerificationNeverFails ==
    (client = "Pass" /\ lastOp = "balance") => verifyBalance(heap, tree.root)

\* balance() has rebuilt a subtree below the root of a six-node tree and left the
\* root where it was.
C24_Witness ==
    /\ client = "Pass" /\ lastOp = "balance"
    /\ scapegoats > 0
    /\ size(heap, tree.root) = MaxShape
    /\ tree.root <= MaxShape
    /\ verifyBalance(heap, tree.root)

-----------------------------------------------------------------------------
\* C25: in both hosts, whenever a decision is awaited the current comparison node
\* is a node reachable from the root of the current tree: the host never holds a
\* node that a rebuild has discarded.
C25_ComparisonNodeIsInTheTree ==
    AwaitingDecision => currentNode \in TreeNodes

\* A decision is awaited after an insertion whose balance() rebuilt the whole tree,
\* the node the walk ended at included.
C25_Witness ==
    /\ AwaitingDecision
    /\ lastOp = "insert" /\ scapegoats >= 1
    /\ currentNode = tree.root
    /\ size(heap, tree.root) = 3

-----------------------------------------------------------------------------
\* The values stored in the tree and the entries of randomized are disjoint and
\* together are exactly the submitted items
TreeAndUnsortedPartitionItems ==
    /\ StoredValues \cap Range(randomized) = {}
    /\ StoredValues \cup Range(randomized) = Range(items)
    /\ IsPermutation(getSorted(heap, tree.root) \o randomized, items)

\* C26: in App.tsx's sorting step with pairwise distinct items, whenever a decision
\* is awaited the tree's values and the entries of randomized are disjoint and
\* together are exactly the submitted items, and each insertion removes from
\* randomized exactly the item it added to the tree.
C26_TreeAndUnsortedPartitionTheItems ==
    [][(client = "App" /\ PairwiseDistinct(items)) =>
         /\ AwaitingDecision' => TreeAndUnsortedPartitionItems'
         /\ lastOp' = "insert" =>
              /\ randomized' = Remove(randomized, currentItem)
              /\ Len(randomized') = Len(randomized) - 1
              /\ StoredValues' = StoredValues \cup {currentItem}
              /\ currentItem \notin StoredValues]_vars

\* A decision is awaited after an insertion: of four distinct items two are in the
\* tree and the other two are still unsorted.
C26_Witness ==
    /\ client = "App" /\ PairwiseDistinct(items) /\ AwaitingDecision
    /\ lastOp = "insert"
    /\ Len(items) = 4 /\ Len(randomized) = 2
    /\ Cardinality(StoredValues) = 2
    /\ TreeAndUnsortedPartitionItems

-----------------------------------------------------------------------------
\* C27: for every item list accepted by the input step (typed in or loaded from a
\* file), no reachable state of App.tsx's 'sorting' step is one in which no
\* comparison can be answered: the comparison buttons are rendered and
\* handleComparison accepts the answer, so that answering leads on to 'tierSetting'.
C27_SortingStepCanAlwaysBeAnswered ==
    (client = "App" /\ currentStep = "sorting") =>
        /\ currentNode # Null /\ Truthy(currentItem) /\ tree.present
        /\ Len(randomized) > 0

-----------------------------------------------------------------------------
\* floor(log2(n)) for n >= 1
RECURSIVE FloorLog2(_)
FloorLog2(n) == IF n <= 1 THEN 0 ELSE 1 + FloorLog2(n \div 2)

-----------------------------------------------------------------------------
\* C29: when the submitted items are pairwise distinct, the self-comparison branch
\* of handleComparison is never taken: in every reachable state of the sorting step
\* the pending item differs from the value of the current comparison node, and no
\* item leaves the unsorted list without being inserted into the tree.
C29_NoSelfComparisonOfDistinctItems ==
    [][(client = "App" /\ PairwiseDistinct(items')) =>
         /\ lastOp' # "selfcompare"
         /\ (currentStep' = "sorting" /\ currentNode' # Null) =>
               currentItem' # heap'[currentNode'].value
         /\ (currentStep = "sorting" /\ randomized' # randomized) =>
               /\ lastOp' = "insert"
               /\ currentItem \in StoredValues']_vars

\* A decision between two different values is awaited below the root, after a
\* descent that changed the pending item.
C29_Witness ==
    /\ client = "App" /\ PairwiseDistinct(items) /\ AwaitingDecision
    /\ lastOp = "descend"
    /\ currentIndex = 1
    /\ currentNode # tree.root
    /\ currentItem # heap[currentNode].value
    /\ currentItem \notin StoredValues

-----------------------------------------------------------------------------
\* C30: whenever App.tsx reaches the 'tierSetting' step, sorted is a permutation of
\* the submitted item list (every item as many times as it was submitted), for every
\* item list accepted by the input step.
C30_SortedIsAPermutationOfTheItems ==
    (client = "App" /\ currentStep = "tierSetting") =>
        /\ ~sorted.isNull
        /\ IsPermutation(sorted.list, items)

-----------------------------------------------------------------------------
\* The nodes of the tree rooted at root that balance() replaces: those in the
\* subtree of a scapegoat
RebuiltOf(h, root) ==
    LET nodes == Range(inOrderIds(h, root))
    IN  {n \in nodes : \E a \in AncestorsOrSelf(h, n) \cap nodes : IsScapegoat(h, a)}

\* C23: two Insertion-Walks interleaved on one Tree are unsafe.  The rebalance
\* that ends one walk discards exactly the nodes it rebuilt, so the other walk may
\* be left holding a node that is not reachable from the root any more; and a walk
\* that ends at such a node applies addChild to it, after which its value is
\* missing from getSorted() (a walk that ends at a node of the tree gets its value
\* in).
C23_InterleavedWalkLosesItsValue ==
    [][(client = "Walks" /\ lastOp' = "insert") =>
         \A w \in Walkers : walks'[w] # walks[w] =>
            LET n == walks[w].node
                v == walks[w].item
                h == addChild(heap, n, v, lastDir')
            IN  /\ IF n \in TreeNodes
                   THEN /\ Count(getSorted(heap', tree'.root), v) = 1
                        /\ size(heap', tree'.root) = size(heap, tree.root) + 1
                   ELSE /\ Count(getSorted(heap', tree'.root), v) = 0
                        /\ getSorted(heap', tree'.root) = getSorted(heap, tree.root)
                /\ \A u \in Walkers \ {w} : walks[u].node # Null =>
                      /\ walks'[u] = walks[u]
                      /\ walks[u].node \in TreeNodes' <=>
                            /\ walks[u].node \in TreeNodes
                            /\ walks[u].node \notin RebuiltOf(h, tree.root)]_vars

\* One walk has ended with a rebalance that discarded the node the other held, the
\* other has then added its item below that node, and getSorted() was read: it
\* holds three of the four items.
C23_Witness ==
    /\ client = "Walks" /\ lastOp = "read"
    /\ Len(items) = 4
    /\ sorted.list = getSorted(heap, tree.root)
    /\ Len(sorted.list) = 3
    /\ \E n \in DOMAIN heap :
        /\ heap[n].value \notin Range(sorted.list)
        /\ heap[n].value \in Range(items)
        /\ heap[n].parent # Null
        /\ heap[n].parent \notin TreeNodes
        /\ heap[heap[n].parent].value \in Range(sorted.list)

-----------------------------------------------------------------------------
\* C31: after any sequence of toggleBoundary (adding or removing a boundary) and
\* moveBoundary events in the tier-setting step, the list of tier boundaries holds
\* at most 7 entries (which are distinct gap indices in ascending order).
C31_AtMostSevenBoundaries ==
    client = "Tiers" =>
        /\ Len(boundaries) <= 7
        /\ \A i \in 1..Len(boundaries) : boundaries[i] \in GapIndices
        /\ \A i \in 1..(Len(boundaries) - 1) : boundaries[i] < boundaries[i + 1]

\* Seven boundaries are placed in a sequence that has an eighth gap free, and one
\* of them has just been dragged to another gap.
C31_Witness ==
    /\ client = "Tiers" /\ currentStep = "tierSetting"
    /\ lastOp = "moveBoundary"
    /\ Len(boundaries) = 7
    /\ Cardinality(GapIndices \ Range(boundaries)) >= 1

\* The item lists of the tiers, one after the other
RECURSIVE TierItems(_)
TierItems(tiers) ==
    IF tiers = <<>> THEN <<>> ELSE tiers[1].items \o TierItems(Tail(tiers))

\* C32: for every boundary list reachable in the tier-setting step, getTiers()
\* returns boundaries.length + 1 tiers whose item lists, concatenated in order,
\* are exactly sorted: no item is dropped, duplicated or reordered.
C32_TiersPartitionTheRanking ==
    client = "Tiers" =>
        \A tiers \in {getTiers(sorted, boundaries, tierNames)} :
            /\ Len(tiers) = Len(boundaries) + 1
            /\ TierItems(tiers) = sorted.list

\* The tiers are locked with seven boundaries in nine items: eight tiers, none
\* empty, one of two items, the second one named.
C32_Witness ==
    /\ client = "Tiers" /\ currentStep = "locked"
    /\ Len(sorted.list) = 9 /\ Len(boundaries) = 7
    /\ \A tiers \in {getTiers(sorted, boundaries, tierNames)} :
        /\ Len(tiers) = 8
        /\ \A i \in 1..8 : Len(tiers[i].items) >= 1
        /\ \E i \in 1..8 : Len(tiers[i].items) = 2
        /\ tiers[2].name = "S"

====
